---- MODULE Spec2Model ----
(***************************************************************************)
(* Plugin validation and secure-loading pipeline of mac-setup:             *)
(*   cli/plugin_validator.py  PluginManifest, PluginValidator              *)
(*   cli/plugin_system.py     PluginLoader (discovery, load_plugin,        *)
(*                            load_all, execute_hooks), HookContext        *)
(*                                                                         *)
(* The loader is single-threaded.  load_all, load_plugin and execute_hooks *)
(* are modelled step by step (one action per statement group of the        *)
(* source) so that the order of validation, integrity check, execution of  *)
(* plugin code, registration and hook invocation is observable.            *)
(* A Python exception leaving a function is the outcome                    *)
(* [kind |-> "raise", fault |-> <class name>].                             *)
(***************************************************************************)
EXTENDS Integers, Sequences, FiniteSets, TLC

VARIABLES
    fs,            \* the plugin directories on disk (never written by the loader)
    modules,       \* what the code of each module file does when it runs
    plugin_paths,  \* PluginLoader.plugin_paths
    plugins,       \* PluginLoader.plugins, a dict kept in insertion order
    hooks,         \* PluginLoader.hooks, stage -> list of hooks
    pc,            \* position of the single thread of control
    la,            \* frame of the running (or last) load_all call
    lp,            \* frame of the running (or last) load_plugin call
    hx,            \* frame of the running (or last) execute_hooks call
    nextId,        \* identity of the next plugin object to be constructed
    calls,         \* number of load_all calls started
    vx,            \* frame of a direct use of plugin_validator.py
    ax             \* frame of the running (or last) accessor call

vars == <<fs, modules, plugin_paths, plugins, hooks, pc, la, lp, hx, nextId, calls, vx, ax>>

---------------------------------------------------------------------------
(* Bounds of the model *)

MaxLoadAll == 2
MaxHooksPerStage == 2

---------------------------------------------------------------------------
(* Values *)

None == "None"

Names == {"alpha", "beta"}
NameOrder == <<"alpha", "beta">>

\* Search paths: the two defaults of load_all exist, "missing" does not.
DefaultPaths == <<"user", "project">>
ExistingPaths == {"user", "project"}
HomeOf(n) == IF n = "alpha" THEN "user" ELSE "project"

\* HookContext's documented stages.
FixedStages == {"pre_setup", "post_setup", "pre_role", "post_role"}

\* Exception classes that occur, with their base classes.
Bases(f) ==
    CASE f = "FileNotFoundError" -> {"FileNotFoundError", "OSError"}
      [] f = "JSONDecodeError" -> {"JSONDecodeError", "ValueError"}
      [] OTHER -> {f}

Caught(f, handlers) == Bases(f) \cap handlers # {}

Return(v) == [kind |-> "return", value |-> v]
Raise(f) == [kind |-> "raise", fault |-> f]

---------------------------------------------------------------------------
(* plugin_validator.py *)

\* JSON values as json.load returns them: t is the Python type of the
\* value, s the text of a scalar, items the elements of a list (k = "") or
\* the entries of a dict (k the key), each with its type and text.
String(s) == [t |-> "str", s |-> s, items |-> <<>>]
Number(s) == [t |-> "int", s |-> s, items |-> <<>>]
Elem(t, s) == [k |-> "", t |-> t, s |-> s]
Entry(k, t, s) == [k |-> k, t |-> t, s |-> s]
List(items) == [t |-> "list", s |-> "", items |-> items]
Dict(items) == [t |-> "dict", s |-> "", items |-> items]

\* The document of a manifest file: a mapping of field names to values (its
\* fields in m), or a JSON value of another type.
Doc(t, m) == [t |-> t, m |-> m]
Fields(data) == DOMAIN data.m

REQUIRED_FIELDS == <<"name", "version", "author", "description">>
OPTIONAL_FIELDS == <<"homepage", "repository", "license", "requires", "permissions">>
FieldType(f) ==
    CASE f = "requires" -> "dict"
      [] f = "permissions" -> "list"
      [] OTHER -> "str"
VALID_PERMISSIONS == {"filesystem", "network", "system", "environment"}

RequiredMethods == <<"initialize", "get_roles", "get_hooks", "validate">>

\* Character classes of the version pattern.
Digit == {"0", "1", "2", "3", "4", "5", "6", "7", "8", "9"}
Letter ==
    {"a", "b", "c", "d", "e", "f", "g", "h", "i", "j", "k", "l", "m",
     "n", "o", "p", "q", "r", "s", "t", "u", "v", "w", "x", "y", "z",
     "A", "B", "C", "D", "E", "F", "G", "H", "I", "J", "K", "L", "M",
     "N", "O", "P", "Q", "R", "S", "T", "U", "V", "W", "X", "Y", "Z"}
AlnumDot == Digit \cup Letter \cup {"."}

Char(v, i) == SubSeq(v, i, i)

\* v[a..b] is a non-empty run of characters of class.
Run(v, a, b, class) == a <= b /\ \A i \in a..b : Char(v, i) \in class

\* v[a..n] matches (?:-[a-zA-Z0-9.]+)?(?:\+[a-zA-Z0-9.]+)?
SuffixMatch(v, a, n) ==
    \/ a = n + 1
    \/ /\ a <= n
       /\ Char(v, a) \in {"-", "+"}
       /\ Run(v, a + 1, n, AlnumDot)
    \/ /\ a <= n
       /\ Char(v, a) = "-"
       /\ \E p \in (a + 2)..(n - 1) :
            /\ Run(v, a + 1, p - 1, AlnumDot)
            /\ Char(v, p) = "+"
            /\ Run(v, p + 1, n, AlnumDot)

\* v[1..n] matches (\d+)\.(\d+)\.(\d+) followed by the optional suffixes.
PatternMatch(v, n) ==
    \E i \in 1..n : \E j \in 1..n : \E k \in 1..n :
        /\ Run(v, 1, i, Digit)
        /\ i + 1 <= n /\ Char(v, i + 1) = "."
        /\ Run(v, i + 2, j, Digit)
        /\ j + 1 <= n /\ Char(v, j + 1) = "."
        /\ Run(v, j + 2, k, Digit)
        /\ SuffixMatch(v, k + 1, n)

\* PluginManifest._is_valid_semver on a string: re.match of the pattern
\* ^...$, where $ matches at the end of the string and also just before a
\* newline that ends the string.
is_valid_semver(v) ==
    \/ PatternMatch(v, Len(v))
    \/ /\ Len(v) >= 1
       /\ Char(v, Len(v)) = "\n"
       /\ PatternMatch(v, Len(v) - 1)

\* The errors validate appends, as records: kind and field say which check
\* failed for which field, names holds the entries the message lists.
Error(kind, field, names) == [kind |-> kind, field |-> field, names |-> names]

\* RequiredErrors reporting a missing field without saying which.
RequiredErrors_Unnamed(m, fields) ==
    IF \E i \in 1..Len(fields) : fields[i] \notin DOMAIN m
    THEN <<Error("missing", "", {})>> ELSE <<>>

\* "for field, field_type in self.REQUIRED_FIELDS.items()"
RECURSIVE RequiredErrors(_, _)
RequiredErrors(m, fields) ==
    IF fields = <<>> THEN <<>>
    ELSE LET f == Head(fields)
             e == IF f \notin DOMAIN m THEN <<Error("missing", f, {})>>
                  ELSE IF m[f].t # FieldType(f) THEN <<Error("type", f, {})>>
                  ELSE <<>>
         IN e \o RequiredErrors(m, Tail(fields))

\* "for field, field_type in self.OPTIONAL_FIELDS.items()"
RECURSIVE OptionalErrors(_, _)
OptionalErrors(m, fields) ==
    IF fields = <<>> THEN <<>>
    ELSE LET f == Head(fields)
             e == IF f \in DOMAIN m /\ m[f].t # FieldType(f)
                  THEN <<Error("type", f, {})>> ELSE <<>>
         IN e \o OptionalErrors(m, Tail(fields))

\* The version check: re.match raises TypeError for a value that is no string.
VersionErrors(m) ==
    IF "version" \notin DOMAIN m THEN Return(<<>>)
    ELSE IF m["version"].t # "str" THEN Raise("TypeError")
    ELSE IF ~is_valid_semver(m["version"].s)
      THEN Return(<<Error("version", "version", {})>>)
    ELSE Return(<<>>)

\* set(self.data["permissions"]): the elements of a list, the keys of a
\* dict, the characters of a string; TypeError for a value that cannot be
\* iterated and for an element that cannot be hashed.
SetOf(v) ==
    IF v.t \in {"list", "dict"}
    THEN IF v.t = "list" /\ \E i \in 1..Len(v.items) : v.items[i].t \in {"list", "dict"}
         THEN Raise("TypeError")
         ELSE Return({IF v.t = "dict" THEN v.items[i].k ELSE v.items[i].s :
                        i \in 1..Len(v.items)})
    ELSE IF v.t = "str" THEN Return({Char(v.s, i) : i \in 1..Len(v.s)})
    ELSE Raise("TypeError")

PermissionErrors(m) ==
    IF "permissions" \notin DOMAIN m THEN Return(<<>>)
    ELSE LET perms == SetOf(m["permissions"]) IN
         IF perms.kind = "raise" THEN perms
         ELSE LET invalid_perms == perms.value \ VALID_PERMISSIONS IN
              IF invalid_perms # {}
              THEN Return(<<Error("permissions", "permissions", invalid_perms)>>)
              ELSE Return(<<>>)

RECURSIVE RequirementErrors(_)
RequirementErrors(items) ==
    IF items = <<>> THEN <<>>
    ELSE (IF Head(items).t # "str"
            THEN <<Error("requirement", "requires", {Head(items).k})>> ELSE <<>>)
         \o RequirementErrors(Tail(items))

RequiresErrors(m) ==
    IF "requires" \notin DOMAIN m THEN <<>>
    ELSE IF m["requires"].t # "dict" THEN <<Error("requires", "requires", {})>>
    ELSE RequirementErrors(m["requires"].items)

\* PluginManifest.validate on the parsed document: (ok, errors), or the
\* TypeError raised by a check that meets a value of a type it cannot handle
\* ("field in self.data" on a document that is a number, re.match on a
\* version that is no string, set() on permissions that cannot be iterated).
validate_data(data) ==
    IF data.t = "int" THEN Raise("TypeError")
    ELSE LET m == data.m
             ver == VersionErrors(m)
             perm == PermissionErrors(m)
         IN IF ver.kind = "raise" THEN ver
            ELSE IF perm.kind = "raise" THEN perm
            ELSE LET errors == RequiredErrors(m, REQUIRED_FIELDS)
                               \o ver.value
                               \o OptionalErrors(m, OPTIONAL_FIELDS)
                               \o perm.value
                               \o RequiresErrors(m)
                 IN Return([ok |-> Len(errors) = 0, errors |-> errors])

\* The SHA-256 digest of json.dumps(manifest_copy, sort_keys=True): the
\* serialisation is canonical and the digest is taken to be free of
\* collisions, so distinct mappings have distinct digests.
Digest(copy) == "sha256(" \o ToString(copy) \o ")"

\* manifest_copy = {k: v for k, v in self.data.items() if k != "checksum"}
WithoutChecksum(m) == [k \in DOMAIN m \ {"checksum"} |-> m[k]]

NoDir == [exists |-> FALSE]

\* PluginManifest.__init__: reads and parses manifest.json.
PluginManifest(d) ==
    IF d.manifest = "missing" THEN Raise("FileNotFoundError")
    ELSE IF d.manifest = "malformed" THEN Raise("ValueError")
    ELSE Return(d)

\* PluginManifest.validate of the manifest of directory d.
validate(d) == validate_data(d.data)

\* verify_integrity answering "verified" whenever a checksum is stored.
verify_integrity_NoCompare(data) ==
    IF "checksum" \notin DOMAIN data.m THEN [ok |-> FALSE, msg |-> "missing_checksum"]
    ELSE [ok |-> TRUE, msg |-> "verified"]

\* PluginManifest.verify_integrity on the parsed document.
verify_integrity_data(data) ==
    IF "checksum" \notin DOMAIN data.m THEN [ok |-> FALSE, msg |-> "missing_checksum"]
    ELSE LET stored_checksum == data.m["checksum"]
             computed_checksum == String(Digest(WithoutChecksum(data.m)))
         IN IF computed_checksum # stored_checksum
            THEN [ok |-> FALSE, msg |-> "tampered"]
            ELSE [ok |-> TRUE, msg |-> "verified"]

\* PluginManifest.verify_integrity of the manifest of directory d.
verify_integrity(d) == verify_integrity_data(d.data)

\* The text of an __init__.py, line by line: a class statement
\* "class <name>(PluginInterface):", a method "def <name>(self):", a comment
\* "# def <name>", or other text.
Line(kind, name) == [kind |-> kind, name |-> name]

\* p is the beginning of the word w.
Prefix(p, w) == Len(p) <= Len(w) /\ SubSeq(w, 1, Len(p)) = p

\* "class Plugin" in source
HasClassPlugin(source) ==
    \E i \in 1..Len(source) :
        source[i].kind = "class" /\ Prefix("Plugin", source[i].name)

\* f"def {method}" in source
HasDef(source, method) ==
    \E i \in 1..Len(source) :
        source[i].kind \in {"def", "comment"} /\ Prefix(method, source[i].name)

\* PluginValidator._verify_plugin_class.
verify_plugin_class(d) ==
    IF ~HasClassPlugin(d.source) THEN FALSE
    ELSE LET method_count ==
               Cardinality({i \in 1..Len(RequiredMethods) :
                              HasDef(d.source, RequiredMethods[i])})
         IN method_count >= Len(RequiredMethods)

\* PluginValidator.validate_plugin on the directory plugins_dir / plugin_name.
validate_plugin(d) ==
    IF ~d.exists THEN Return([ok |-> FALSE, msg |-> "dir_not_found"])
    ELSE LET m == PluginManifest(d) IN
      IF m.kind = "raise" /\ Caught(m.fault, {"FileNotFoundError"})
        THEN Return([ok |-> FALSE, msg |-> "missing_manifest"])
      ELSE IF m.kind = "raise" /\ Caught(m.fault, {"ValueError"})
        THEN Return([ok |-> FALSE, msg |-> "malformed_manifest"])
      ELSE IF m.kind = "raise" THEN m
      ELSE LET v == validate(d) IN
        IF v.kind = "raise" THEN
          (IF Caught(v.fault, {"FileNotFoundError"})
             THEN Return([ok |-> FALSE, msg |-> "missing_manifest"])
           ELSE IF Caught(v.fault, {"ValueError"})
             THEN Return([ok |-> FALSE, msg |-> "malformed_manifest"])
           ELSE v)
        ELSE IF ~v.value.ok THEN Return([ok |-> FALSE, msg |-> "schema"])
        ELSE IF d.init = "missing" THEN Return([ok |-> FALSE, msg |-> "missing_init"])
        ELSE IF d.init = "empty" THEN Return([ok |-> FALSE, msg |-> "empty_init"])
        ELSE IF ~verify_plugin_class(d)
          THEN Return([ok |-> FALSE, msg |-> "class_not_defined"])
        ELSE Return([ok |-> TRUE, msg |-> "passed"])

---------------------------------------------------------------------------
(* The plugin directories on disk *)

\* The fields of a manifest that passes validate.
GoodFields ==
    [f \in {"name", "version", "author", "description", "permissions"} |->
        CASE f = "version" -> String("1.0.0")
          [] f = "permissions" -> List(<<Elem("str", "filesystem")>>)
          [] OTHER -> String("text")]

\* The mapping m with the digest of its other fields stored as its checksum.
StoreChecksum(m) ==
    [k \in DOMAIN m \cup {"checksum"} |->
        IF k = "checksum" THEN String(Digest(WithoutChecksum(m))) ELSE m[k]]

\* An __init__.py that defines class Plugin with the four methods.
ClassSource(methods) ==
    <<Line("class", "Plugin")>> \o [i \in 1..Len(methods) |-> Line("def", methods[i])]
GoodSource == ClassSource(RequiredMethods)

\* A package directory that passes every gate of validate_plugin and whose
\* manifest carries the digest of its own content.
GoodDir ==
    [exists |-> TRUE, manifest |-> "parsed",
     data |-> Doc("dict", StoreChecksum(GoodFields)),
     init |-> "text", source |-> GoodSource]

NoChecksumDir == [GoodDir EXCEPT !.data = Doc("dict", GoodFields)]
BadChecksumDir ==
    [GoodDir EXCEPT !.data.m["checksum"] =
        String(Digest([GoodFields EXCEPT !["version"] = String("0.9.0")]))]

DirProfiles ==
    {GoodDir, NoChecksumDir, BadChecksumDir,
     [GoodDir EXCEPT !.manifest = "missing"],
     [GoodDir EXCEPT !.manifest = "malformed"],
     [GoodDir EXCEPT !.data.m["version"] = String("1.0")],
     [GoodDir EXCEPT !.data.m["version"] = Number("5")],
     [GoodDir EXCEPT !.init = "missing"],
     [GoodDir EXCEPT !.init = "empty"],
     [GoodDir EXCEPT !.source =
        ClassSource(<<"initialize", "get_roles", "validate">>)],
     [GoodDir EXCEPT !.source =
        ClassSource(<<"initialize", "get_roles", "get_hooks_for_stage", "validate">>)]}

\* What a search path holds for one plugin name, in iteration order: the
\* module file <name>.py, the package directory <name>/, both or neither.
Layouts == {<<>>, <<"file">>, <<"dir">>, <<"file", "dir">>, <<"dir", "file">>}

HasEntry(e, kind) == \E i \in 1..Len(e.entries) : e.entries[i] = kind

\* The directory <root>/<name>, NoDir when there is none.
DirAt(root, name) ==
    IF name \in Names /\ HomeOf(name) = root /\ HasEntry(fs[name], "dir")
    THEN fs[name].dir ELSE NoDir

---------------------------------------------------------------------------
(* What the code of a plugin module does *)

\* Exception classes raised by plugin code and by hooks.
Faults == {"OSError", "ValueError", "TypeError"}

DeclStages == {"pre_setup", "teardown"}
Decls == [DeclStages -> 0..MaxHooksPerStage]
OneHook == [s \in DeclStages |-> IF s = "pre_setup" THEN 1 ELSE 0]

\* exec: running the module's top level; cls: the module defines a subclass
\* of PluginInterface; ctor, init, validate: instantiating it and calling
\* initialize() and validate(); name: the instance's name attribute (None when
\* it has none); gethooks, hooks: get_hooks() and the number of hooks it
\* returns per stage.
OkModule(n, decl) ==
    [exec |-> "ok", cls |-> TRUE, ctor |-> "ok", init |-> "ok",
     validate |-> "true", name |-> n, gethooks |-> "ok", hooks |-> decl]

LoadFaults == {"OSError", "ValueError"}

\* Modules that fail to load, one for each place where load_plugin or
\* load_all runs the plugin's code.
FaultyModules(n) ==
    LET ok == OkModule(n, OneHook) IN
         {[ok EXCEPT !.exec = f] : f \in LoadFaults}
    \cup {[ok EXCEPT !.cls = FALSE]}
    \cup {[ok EXCEPT !.ctor = "TypeError"]}
    \cup {[ok EXCEPT !.init = f] : f \in LoadFaults}
    \cup {[ok EXCEPT !.validate = v] : v \in {"false"} \cup LoadFaults}
    \cup {[ok EXCEPT !.name = None]}
    \cup {[ok EXCEPT !.gethooks = "TypeError"]}

\* A world: the entries of the two plugin directories and the code of the
\* module files in them.  The user's directory holds "alpha", the project's
\* directory holds "beta".
World(a, ma, b, mb) ==
    [fs |-> [n \in Names |-> IF n = "alpha" THEN a ELSE b],
     modules |-> [n \in Names |-> IF n = "alpha" THEN ma ELSE mb]]

WholePlugin(d) == [entries |-> <<"file", "dir">>, dir |-> d]
NoEntries == [entries |-> <<>>, dir |-> NoDir]

AlphaEntries ==
    {e \in [entries : Layouts, dir : DirProfiles \cup {NoDir}] :
        HasEntry(e, "dir") <=> e.dir.exists}

\* "alpha" in any shape on disk, its module sound; "beta" absent or whole.
DirWorlds ==
    {World(a, OkModule("alpha", OneHook), b, OkModule("beta", OneHook)) :
        a \in AlphaEntries, b \in {NoEntries, WholePlugin(GoodDir)}}

\* "alpha" with a package directory that validates and a module that fails.
CodeWorlds ==
    {World([entries |-> l, dir |-> d], m, b, OkModule("beta", OneHook)) :
        l \in {<<"file", "dir">>, <<"dir", "file">>},
        d \in {GoodDir, NoChecksumDir, BadChecksumDir},
        m \in FaultyModules("alpha"),
        b \in {NoEntries, WholePlugin(GoodDir)}}

\* Two whole plugins that load, "alpha" with any hook declarations, "beta"
\* with hooks for pre_setup only; "beta" under its own name or under the
\* name "alpha".
HookWorlds ==
    {World(WholePlugin(GoodDir), OkModule("alpha", da),
           WholePlugin(GoodDir), OkModule(nb, db)) :
        da \in Decls, db \in {d \in Decls : d["teardown"] = 0}, nb \in Names}

\* Plugins that are package directories only (no module file beside them),
\* every gate of the validator passed, the checksum right, the code sound.
PackageOnly(d) == [entries |-> <<"dir">>, dir |-> d]
PackageWorlds ==
    {World(PackageOnly(GoodDir), OkModule("alpha", OneHook),
           b, OkModule("beta", OneHook)) :
        b \in {PackageOnly(GoodDir), WholePlugin(GoodDir)}}

Worlds == DirWorlds \cup CodeWorlds \cup HookWorlds \cup PackageWorlds

---------------------------------------------------------------------------
(* plugin_system.py: PluginLoader *)

\* add_plugin_path: the path is appended when it exists, also when it is
\* already in the list.
add_plugin_path(paths, p) ==
    IF p \in ExistingPaths THEN Append(paths, p) ELSE paths

RECURSIVE AddAll(_, _)
AddAll(paths, ps) ==
    IF ps = <<>> THEN paths ELSE AddAll(add_plugin_path(paths, Head(ps)), Tail(ps))

Candidate(root, name, kind) ==
    [path |-> [root |-> root, name |-> name, kind |-> kind], module_name |-> name]

\* An entry of a directory as iterdir() yields it.  item.name is stem \o
\* suffix; kind tells is_file() ("file") and is_dir() ("dir") apart from
\* entries that are neither; init tells whether <item>/__init__.py exists.
Item(stem, suffix, kind, init) ==
    [stem |-> stem, suffix |-> suffix, kind |-> kind, init |-> init]
ItemName(item) == item.stem \o item.suffix

\* ItemCandidates without "if item.name.startswith("_"): continue".
ItemCandidates_NoPrivate(root, item) ==
    IF item.kind = "file" /\ item.suffix = ".py"
      THEN <<Candidate(root, item.stem, "file")>>
    ELSE IF item.kind = "dir" /\ item.init
      THEN <<Candidate(root, ItemName(item), "dir")>>
    ELSE <<>>

\* The body of "for item in plugin_dir.iterdir()".
ItemCandidates(root, item) ==
    IF Prefix("_", ItemName(item)) THEN <<>>
    ELSE IF item.kind = "file" /\ item.suffix = ".py"
      THEN <<Candidate(root, item.stem, "file")>>
    ELSE IF item.kind = "dir" /\ item.init
      THEN <<Candidate(root, ItemName(item), "dir")>>
    ELSE <<>>

RECURSIVE ListingCandidates(_, _)
ListingCandidates(root, items) ==
    IF items = <<>> THEN <<>>
    ELSE ItemCandidates(root, Head(items)) \o ListingCandidates(root, Tail(items))

\* discover_plugins over the search paths, given the directories that exist
\* and what iterdir() yields for each: every path in order, once per
\* occurrence in the list.
RECURSIVE DiscoverIn(_, _, _)
DiscoverIn(paths, existing, listing) ==
    IF paths = <<>> THEN <<>>
    ELSE (IF Head(paths) \in existing
            THEN ListingCandidates(Head(paths), listing[Head(paths)]) ELSE <<>>)
         \o DiscoverIn(Tail(paths), existing, listing)

\* iterdir of one of the loader's search paths: <name>.py and <name>/ for
\* each plugin that lives there.
RECURSIVE PathItems(_, _)
PathItems(root, names) ==
    IF names = <<>> THEN <<>>
    ELSE LET name == Head(names)
             kinds == fs[name].entries
         IN (IF HomeOf(name) = root
               THEN [i \in 1..Len(kinds) |->
                       IF kinds[i] = "file" THEN Item(name, ".py", "file", FALSE)
                       ELSE Item(name, "", "dir", fs[name].dir.init # "missing")]
               ELSE <<>>)
            \o PathItems(root, Tail(names))

\* discover_plugins on the loader's plugin directories.
discover_plugins(paths) ==
    DiscoverIn(paths, ExistingPaths, [r \in ExistingPaths |-> PathItems(r, NameOrder)])

\* str(item): the plugin_path of a candidate, <root>/<name>.py for a module
\* file and <root>/<name> for a package directory.
PathString(path) ==
    path.root \o "/" \o path.name \o (IF path.kind = "file" THEN ".py" ELSE "")

\* What load_plugin returns for None, and the empty dict.
NoPlugin == [id |-> 0]
IsPlugin(v) == v.id # 0
EmptyDict == [s \in {} |-> <<>>]

\* load_plugin's except clause.
LoadPluginHandlers == {"ImportError", "AttributeError", "OSError"}
IntegrityHandlers == {"OSError", "ValueError", "JSONDecodeError"}

\* The outcome of load_plugin when fault f is raised inside its try block.
LoadFault(f) == IF Caught(f, LoadPluginHandlers) THEN Return(NoPlugin) ELSE Raise(f)

\* The hooks of a plugin object: get_hooks() as a dict of stage -> list.
HookKeys(inst) == {s \in DOMAIN inst.hooks : inst.hooks[s] > 0}
HookList(inst, s) ==
    [j \in 1..inst.hooks[s] |->
        [owner |-> inst.id, module |-> inst.module, stage |-> s, k |-> j]]

\* RegisterHooks putting the new hooks in front of the stage's list.
RegisterHooks_Prepend(h, inst) ==
    [s \in DOMAIN h \cup HookKeys(inst) |->
        (IF s \in HookKeys(inst) THEN HookList(inst, s) ELSE <<>>)
        \o (IF s \in DOMAIN h THEN h[s] ELSE <<>>)]

\* self.hooks after "for stage, hooks in plugin.get_hooks().items(): ...".
RegisterHooks(h, inst) ==
    [s \in DOMAIN h \cup HookKeys(inst) |->
        (IF s \in DOMAIN h THEN h[s] ELSE <<>>)
        \o (IF s \in HookKeys(inst) THEN HookList(inst, s) ELSE <<>>)]

\* list_plugins: the keys of self.plugins in insertion order.
list_plugins(reg) == [i \in 1..Len(reg) |-> reg[i].key]

\* self.plugins[key] = inst on a dict kept in insertion order.
HasKey(reg, key) == \E i \in 1..Len(reg) : reg[i].key = key
DictSet(reg, key, inst) ==
    IF HasKey(reg, key)
    THEN [i \in 1..Len(reg) |->
            IF reg[i].key = key THEN [key |-> key, inst |-> inst] ELSE reg[i]]
    ELSE Append(reg, [key |-> key, inst |-> inst])


---------------------------------------------------------------------------
(* State after PluginLoader() *)

NoOutcome == [kind |-> "none"]

\* args: the plugin_paths argument of the call, prevArgs that of the call
\* before it; hooksBefore, pluginsBefore, pathsBefore: the loader's hooks,
\* plugins and plugin_paths when the call began.
IdleLa ==
    [discovered |-> <<>>, i |-> 1, loaded |-> 0, results |-> <<>>,
     outcome |-> NoOutcome, hooksBefore |-> EmptyDict,
     args |-> <<"no call">>, prevArgs |-> <<"no call">>, pluginsBefore |-> <<>>,
     pathsBefore |-> <<>>]
IdleLp ==
    [cand |-> Candidate(None, None, None), validation |-> NoOutcome,
     integrity |-> "pending", executed |-> FALSE, inst |-> NoPlugin,
     outcome |-> NoOutcome]
IdleHx == [stage |-> None]
IdleVx == [op |-> None]
IdleAx == [op |-> None]

Init ==
    /\ \E w \in Worlds : fs = w.fs /\ modules = w.modules
    /\ plugin_paths = <<>>
    /\ plugins = <<>>
    /\ hooks = EmptyDict
    /\ pc = "idle"
    /\ la = IdleLa
    /\ lp = IdleLp
    /\ hx = IdleHx
    /\ nextId = 1
    /\ calls = 0
    /\ vx = IdleVx
    /\ ax = IdleAx

---------------------------------------------------------------------------
(* load_all *)

\* The arguments load_all is called with; <<>> selects the default paths.
PathArgs == {<<>>, <<"project", "missing", "user">>}

\* load_all up to "discovered = self.discover_plugins()".
LoadAllCall ==
    /\ pc = "idle"
    /\ calls < MaxLoadAll
    /\ \E args \in PathArgs :
         LET given == IF args = <<>> THEN DefaultPaths ELSE args
             paths == AddAll(plugin_paths, given)
         IN /\ plugin_paths' = paths
            /\ la' = [IdleLa EXCEPT !.discovered = discover_plugins(paths),
                                    !.hooksBefore = hooks,
                                    !.args = args, !.prevArgs = la.args,
                                    !.pluginsBefore = plugins,
                                    !.pathsBefore = plugin_paths]
    /\ calls' = calls + 1
    /\ pc' = "la_loop"
    /\ UNCHANGED <<fs, modules, plugins, hooks, lp, hx, nextId, vx, ax>>

\* The head of load_all's loop: the next candidate enters load_plugin, or
\* the loop is over and load_all returns the count.
LaNext ==
    /\ pc = "la_loop"
    /\ IF la.i > Len(la.discovered)
       THEN /\ la' = [la EXCEPT !.outcome = Return(la.loaded)]
            /\ pc' = "la_done"
            /\ lp' = lp
       ELSE /\ lp' = [IdleLp EXCEPT !.cand = la.discovered[la.i]]
            /\ pc' = "lp_validate"
            /\ la' = la
    /\ UNCHANGED <<fs, modules, plugin_paths, plugins, hooks, hx, nextId, calls, vx, ax>>

---------------------------------------------------------------------------
(* load_plugin *)

LpFinish(outcome) ==
    /\ lp' = [lp EXCEPT !.outcome = outcome]
    /\ pc' = "lp_done"

\* LpValidate without "if not is_valid: return None".
LpValidate_NoAbort ==
    /\ pc = "lp_validate"
    /\ LET v == validate_plugin(DirAt(lp.cand.path.root, lp.cand.module_name)) IN
       IF v.kind = "raise"
       THEN /\ lp' = [lp EXCEPT !.validation = v, !.outcome = LoadFault(v.fault)]
            /\ pc' = "lp_done"
       ELSE /\ lp' = [lp EXCEPT !.validation = v]
            /\ pc' = "lp_integrity"
    /\ UNCHANGED <<fs, modules, plugin_paths, plugins, hooks, la, hx, nextId, calls, vx, ax>>

\* validator = PluginValidator(plugin_dir.parent); validate_plugin(module_name)
LpValidate ==
    /\ pc = "lp_validate"
    /\ LET v == validate_plugin(DirAt(lp.cand.path.root, lp.cand.module_name)) IN
       IF v.kind = "raise"
       THEN /\ lp' = [lp EXCEPT !.validation = v, !.outcome = LoadFault(v.fault)]
            /\ pc' = "lp_done"
       ELSE IF ~v.value.ok
       THEN /\ lp' = [lp EXCEPT !.validation = v, !.outcome = Return(NoPlugin)]
            /\ pc' = "lp_done"
       ELSE /\ lp' = [lp EXCEPT !.validation = v]
            /\ pc' = "lp_integrity"
    /\ UNCHANGED <<fs, modules, plugin_paths, plugins, hooks, la, hx, nextId, calls, vx, ax>>

\* manifest_path = plugin_dir / "manifest.json" below the candidate's own
\* path: it exists only below a directory.
ManifestBelow(cand) ==
    /\ cand.path.kind = "dir"
    /\ DirAt(cand.path.root, cand.path.name).exists
    /\ DirAt(cand.path.root, cand.path.name).manifest # "missing"

\* The integrity step of load_plugin: "skipped", "ok", or the reason of the abort.
IntegrityStep(cand) ==
    IF ~ManifestBelow(cand) THEN "skipped"
    ELSE LET d == DirAt(cand.path.root, cand.path.name)
             m == PluginManifest(d)
         IN IF m.kind = "raise"
            THEN (IF Caught(m.fault, IntegrityHandlers) THEN "error" ELSE m.fault)
            ELSE IF ~verify_integrity(d).ok THEN "failed"
            ELSE "ok"

LpIntegrity ==
    /\ pc = "lp_integrity"
    /\ LET r == IntegrityStep(lp.cand) IN
       IF r \in {"skipped", "ok"}
       THEN /\ lp' = [lp EXCEPT !.integrity = r]
            /\ pc' = "lp_spec"
       ELSE IF r \in {"failed", "error"}
       THEN /\ lp' = [lp EXCEPT !.integrity = r, !.outcome = Return(NoPlugin)]
            /\ pc' = "lp_done"
       ELSE /\ lp' = [lp EXCEPT !.integrity = r, !.outcome = LoadFault(r)]
            /\ pc' = "lp_done"
    /\ UNCHANGED <<fs, modules, plugin_paths, plugins, hooks, la, hx, nextId, calls, vx, ax>>

\* importlib.util.spec_from_file_location(full_module_name, plugin_path):
\* a spec with a loader for a path ending in a source suffix, None for the
\* path of a package directory.
SpecFromFileLocation(cand) == cand.path.kind = "file"

LpSpec ==
    /\ pc = "lp_spec"
    /\ IF SpecFromFileLocation(lp.cand)
       THEN /\ pc' = "lp_exec"
            /\ lp' = lp
       ELSE LpFinish(Return(NoPlugin))
    /\ UNCHANGED <<fs, modules, plugin_paths, plugins, hooks, la, hx, nextId, calls, vx, ax>>

\* spec.loader.exec_module(module): the module's code runs.
LpExec ==
    /\ pc = "lp_exec"
    /\ LET n == lp.cand.path.name IN
       IF modules[n].exec = "ok"
       THEN /\ lp' = [lp EXCEPT !.executed = TRUE]
            /\ pc' = "lp_resolve"
       ELSE /\ lp' = [lp EXCEPT !.executed = TRUE,
                                !.outcome = LoadFault(modules[n].exec)]
            /\ pc' = "lp_done"
    /\ UNCHANGED <<fs, modules, plugin_paths, plugins, hooks, la, hx, nextId, calls, vx, ax>>

\* The scan of dir(module) for a PluginInterface subclass, and item().
LpResolve ==
    /\ pc = "lp_resolve"
    /\ LET b == modules[lp.cand.path.name] IN
       IF ~b.cls
       THEN /\ LpFinish(Return(NoPlugin))
            /\ nextId' = nextId
       ELSE IF b.ctor # "ok"
       THEN /\ LpFinish(LoadFault(b.ctor))
            /\ nextId' = nextId
       ELSE /\ lp' = [lp EXCEPT !.inst =
                        [id |-> nextId, module |-> lp.cand.path.name,
                         name |-> b.name, hooks |-> b.hooks,
                         initialized |-> FALSE, validated |-> FALSE]]
            /\ nextId' = nextId + 1
            /\ pc' = "lp_initialize"
    /\ UNCHANGED <<fs, modules, plugin_paths, plugins, hooks, la, hx, calls, vx, ax>>

\* plugin_instance.initialize()
LpInitialize ==
    /\ pc = "lp_initialize"
    /\ LET b == modules[lp.cand.path.name] IN
       IF b.init # "ok"
       THEN LpFinish(LoadFault(b.init))
       ELSE /\ lp' = [lp EXCEPT !.inst.initialized = TRUE]
            /\ pc' = "lp_selfvalidate"
    /\ UNCHANGED <<fs, modules, plugin_paths, plugins, hooks, la, hx, nextId, calls, vx, ax>>

\* LpSelfValidate without "if not is_valid: return None".
LpSelfValidate_IgnoreFalse ==
    /\ pc = "lp_selfvalidate"
    /\ LET b == modules[lp.cand.path.name] IN
       IF b.validate \notin {"true", "false"} THEN LpFinish(LoadFault(b.validate))
       ELSE IF b.name = None THEN LpFinish(LoadFault("AttributeError"))
       ELSE /\ lp' = [lp EXCEPT !.inst.validated = b.validate = "true",
                                !.outcome = Return([lp.inst EXCEPT !.validated = b.validate = "true"])]
            /\ pc' = "lp_done"
    /\ UNCHANGED <<fs, modules, plugin_paths, plugins, hooks, la, hx, nextId, calls, vx, ax>>

\* is_valid, errors = plugin_instance.validate(); the log line that reads
\* plugin_instance.name; return plugin_instance.
LpSelfValidate ==
    /\ pc = "lp_selfvalidate"
    /\ LET b == modules[lp.cand.path.name] IN
       IF b.validate = "false" THEN LpFinish(Return(NoPlugin))
       ELSE IF b.validate # "true" THEN LpFinish(LoadFault(b.validate))
       ELSE IF b.name = None THEN LpFinish(LoadFault("AttributeError"))
       ELSE /\ lp' = [lp EXCEPT !.inst.validated = TRUE,
                                !.outcome = Return([lp.inst EXCEPT !.validated = TRUE])]
            /\ pc' = "lp_done"
    /\ UNCHANGED <<fs, modules, plugin_paths, plugins, hooks, la, hx, nextId, calls, vx, ax>>

---------------------------------------------------------------------------
(* load_all, after load_plugin *)

\* plugin = self.load_plugin(...); if plugin: self.plugins[plugin.name] = plugin;
\* loaded += 1.  An exception of load_plugin leaves load_all.
LaRegister ==
    /\ pc = "lp_done"
    /\ IF lp.outcome.kind = "raise"
       THEN /\ la' = [la EXCEPT !.results = Append(@, lp.outcome),
                                !.outcome = lp.outcome]
            /\ pc' = "la_done"
            /\ plugins' = plugins
       ELSE IF ~IsPlugin(lp.outcome.value)
       THEN /\ la' = [la EXCEPT !.results = Append(@, lp.outcome), !.i = @ + 1]
            /\ pc' = "la_loop"
            /\ plugins' = plugins
       ELSE /\ la' = [la EXCEPT !.results = Append(@, lp.outcome), !.loaded = @ + 1]
            /\ plugins' = DictSet(plugins, lp.outcome.value.name, lp.outcome.value)
            /\ pc' = "la_hooks"
    /\ UNCHANGED <<fs, modules, plugin_paths, hooks, lp, hx, nextId, calls, vx, ax>>

\* for stage, hooks in plugin.get_hooks().items(): ... extend
LaHooks ==
    /\ pc = "la_hooks"
    /\ LET b == modules[lp.cand.path.name] IN
       IF b.gethooks # "ok"
       THEN /\ la' = [la EXCEPT !.outcome = Raise(b.gethooks)]
            /\ pc' = "la_done"
            /\ hooks' = hooks
       ELSE /\ hooks' = RegisterHooks(hooks, lp.outcome.value)
            /\ la' = [la EXCEPT !.i = @ + 1]
            /\ pc' = "la_loop"
    /\ UNCHANGED <<fs, modules, plugin_paths, plugins, lp, hx, nextId, calls, vx, ax>>

\* load_all has returned or raised; control is back with the caller.
LaReturn ==
    /\ pc = "la_done"
    /\ pc' = "idle"
    /\ UNCHANGED <<fs, modules, plugin_paths, plugins, hooks, la, lp, hx, nextId, calls, vx, ax>>

---------------------------------------------------------------------------
(* execute_hooks *)

\* HookContext(stage=stage)
HookContext(stage) ==
    [stage |-> stage, role |-> None, task |-> None, status |-> "running",
     error |-> None, metadata |-> None]

\* The context argument: none, or a context of the caller.
ContextArgs(stage) ==
    {[supplied |-> FALSE, ctx |-> HookContext(stage)],
     [supplied |-> TRUE, ctx |-> [HookContext(stage) EXCEPT !.role = "shell"]],
     [supplied |-> TRUE,
      ctx |-> [HookContext(stage) EXCEPT !.status = "failed", !.error = "earlier"]]}

DispatchStages == {"pre_setup", "post_role", "teardown"}

\* What hook.execute(context) does: it returns True or False, or raises.
HookResults == {"true", "false"} \cup Faults

\* execute_hooks's except clause.
HookHandlers == {"OSError", "RuntimeError", "ValueError"}

\* execute_hooks up to the loop: the context is created when none is given,
\* and a stage without hooks returns True at once.
HxCall ==
    /\ pc = "idle"
    /\ \E stage \in DispatchStages : \E c \in ContextArgs(stage) :
         LET list == IF stage \in DOMAIN hooks THEN hooks[stage] ELSE <<>> IN
         /\ hx' = [stage |-> stage, supplied |-> c.supplied, before |-> c.ctx,
                   ctx |-> c.ctx, list |-> list, i |-> 1, invoked |-> <<>>,
                   results |-> <<>>,
                   outcome |-> IF list = <<>> THEN Return(TRUE) ELSE NoOutcome]
         /\ pc' = IF list = <<>> THEN "hx_done" ELSE "hx_loop"
    /\ UNCHANGED <<fs, modules, plugin_paths, plugins, hooks, la, lp, nextId, calls, vx, ax>>

\* HookStep going on to the next hook after one returned False.
HookStep_KeepGoing(h, r) ==
    LET g == [h EXCEPT !.invoked = Append(@, h.list[h.i]),
                       !.results = Append(@, r)]
    IN
    IF r = "true" THEN [g EXCEPT !.i = @ + 1]
    ELSE IF r = "false"
      THEN [g EXCEPT !.ctx.status = "failed", !.i = @ + 1]
    ELSE IF Caught(r, HookHandlers)
      THEN [g EXCEPT !.ctx.error = r, !.ctx.status = "failed",
                     !.outcome = Return(FALSE)]
    ELSE [g EXCEPT !.outcome = Raise(r)]

\* HookStep recording an error message also when a hook returned False.
HookStep_ErrorOnFalse(h, r) ==
    LET g == [h EXCEPT !.invoked = Append(@, h.list[h.i]),
                       !.results = Append(@, r)]
    IN
    IF r = "true" THEN [g EXCEPT !.i = @ + 1]
    ELSE IF r = "false"
      THEN [g EXCEPT !.ctx.error = "Hook failed", !.ctx.status = "failed",
                     !.outcome = Return(FALSE)]
    ELSE IF Caught(r, HookHandlers)
      THEN [g EXCEPT !.ctx.error = r, !.ctx.status = "failed",
                     !.outcome = Return(FALSE)]
    ELSE [g EXCEPT !.outcome = Raise(r)]

\* One pass of "for hook in hooks" on frame h, r being what
\* hook.execute(context) does.  invoked and results record the hooks called
\* so far and what each did.
HookStep(h, r) ==
    LET g == [h EXCEPT !.invoked = Append(@, h.list[h.i]),
                       !.results = Append(@, r)]
    IN
    IF r = "true" THEN [g EXCEPT !.i = @ + 1]
    ELSE IF r = "false"
      THEN [g EXCEPT !.ctx.status = "failed", !.outcome = Return(FALSE)]
    ELSE IF Caught(r, HookHandlers)
      THEN [g EXCEPT !.ctx.error = r, !.ctx.status = "failed",
                     !.outcome = Return(FALSE)]
    ELSE [g EXCEPT !.outcome = Raise(r)]

HxStep ==
    /\ pc = "hx_loop"
    /\ hx.i <= Len(hx.list)
    /\ \E r \in HookResults :
         /\ hx' = HookStep(hx, r)
         /\ pc' = IF HookStep(hx, r).outcome.kind = "none" THEN "hx_loop" ELSE "hx_done"
    /\ UNCHANGED <<fs, modules, plugin_paths, plugins, hooks, la, lp, nextId, calls, vx, ax>>

\* After the loop: context.status = "success"; return True.
HxFinish ==
    /\ pc = "hx_loop"
    /\ hx.i > Len(hx.list)
    /\ hx' = [hx EXCEPT !.ctx.status = "success", !.outcome = Return(TRUE)]
    /\ pc' = "hx_done"
    /\ UNCHANGED <<fs, modules, plugin_paths, plugins, hooks, la, lp, nextId, calls, vx, ax>>

\* execute_hooks has returned or raised; its frame is gone.
HxReturn ==
    /\ pc = "hx_done"
    /\ pc' = "idle"
    /\ hx' = IdleHx
    /\ UNCHANGED <<fs, modules, plugin_paths, plugins, hooks, la, lp, nextId, calls, vx, ax>>

---------------------------------------------------------------------------
(* get_plugin, list_plugins, get_plugin_roles, get_plugin_info *)

\* self.plugins.get(name)
get_plugin(reg, name) ==
    IF HasKey(reg, name)
    THEN reg[CHOOSE i \in 1..Len(reg) : reg[i].key = name].inst
    ELSE NoPlugin

\* plugin.get_roles(): role name -> role directory.  Every plugin provides
\* the role "common" and a role of its own.
get_roles(inst) ==
    [r \in {"common", inst.module} |-> [plugin |-> inst.id, role |-> r]]

\* get_plugin_roles: the union of the role maps, a later plugin's role
\* replacing an earlier one of the same name.
RECURSIVE get_plugin_roles(_)
get_plugin_roles(reg) ==
    IF reg = <<>> THEN [r \in {} |-> [plugin |-> 0, role |-> ""]]
    ELSE LET roles == get_plugin_roles(SubSeq(reg, 1, Len(reg) - 1))
             more == get_roles(reg[Len(reg)].inst)
         IN [r \in DOMAIN roles \cup DOMAIN more |->
                IF r \in DOMAIN more THEN more[r] ELSE roles[r]]

RECURSIVE HookCount(_, _)
HookCount(inst, stages) ==
    IF stages = {} THEN 0
    ELSE LET s == CHOOSE x \in stages : TRUE IN
         inst.hooks[s] + HookCount(inst, stages \ {s})

\* get_plugin_info: name -> version, description, role count, hook count.
get_plugin_info(reg) ==
    [i \in 1..Len(reg) |->
        [key |-> reg[i].key,
         info |-> [version |-> "1.0.0", description |-> "Example plugin",
                   roles |-> Cardinality(DOMAIN get_roles(reg[i].inst)),
                   hooks |-> HookCount(reg[i].inst, DOMAIN reg[i].inst.hooks)]]]

\* AxGetPlugin taking the plugin out of the registry (self.plugins.pop).
AxGetPlugin_Pop ==
    /\ pc = "idle"
    /\ \E name \in Names \cup {"gamma"} :
         /\ ax' = [op |-> "get_plugin", arg |-> name,
                  outcome |-> Return(get_plugin(plugins, name))]
         /\ plugins' = SelectSeq(plugins, LAMBDA e : e.key # name)
    /\ pc' = "ax_done"
    /\ UNCHANGED <<fs, modules, plugin_paths, hooks, la, lp, hx, nextId, calls, vx>>

\* loader.get_plugin(name)
AxGetPlugin ==
    /\ pc = "idle"
    /\ \E name \in Names \cup {"gamma"} :
         ax' = [op |-> "get_plugin", arg |-> name,
                  outcome |-> Return(get_plugin(plugins, name))]
    /\ pc' = "ax_done"
    /\ UNCHANGED <<fs, modules, plugin_paths, plugins, hooks, la, lp, hx, nextId, calls, vx>>

\* loader.list_plugins()
AxListPlugins ==
    /\ pc = "idle"
    /\ ax' = [op |-> "list_plugins", arg |-> None,
              outcome |-> Return(list_plugins(plugins))]
    /\ pc' = "ax_done"
    /\ UNCHANGED <<fs, modules, plugin_paths, plugins, hooks, la, lp, hx, nextId, calls, vx>>

\* loader.get_plugin_roles(); r is what the get_roles() of the registered
\* plugins do: they return, or one of them raises.
AxGetPluginRoles ==
    /\ pc = "idle"
    /\ \E r \in {"ok"} \cup Faults :
         /\ r # "ok" => plugins # <<>>
         /\ ax' = [op |-> "get_plugin_roles", arg |-> None,
                  outcome |-> IF r = "ok" THEN Return(get_plugin_roles(plugins))
                              ELSE Raise(r)]
    /\ pc' = "ax_done"
    /\ UNCHANGED <<fs, modules, plugin_paths, plugins, hooks, la, lp, hx, nextId, calls, vx>>

\* loader.get_plugin_info(); r is what the get_roles() and get_hooks() of the
\* registered plugins do.
AxGetPluginInfo ==
    /\ pc = "idle"
    /\ \E r \in {"ok"} \cup Faults :
         /\ r # "ok" => plugins # <<>>
         /\ ax' = [op |-> "get_plugin_info", arg |-> None,
                  outcome |-> IF r = "ok" THEN Return(get_plugin_info(plugins))
                              ELSE Raise(r)]
    /\ pc' = "ax_done"
    /\ UNCHANGED <<fs, modules, plugin_paths, plugins, hooks, la, lp, hx, nextId, calls, vx>>

\* The accessor has returned or raised; its frame is gone.
AxReturn ==
    /\ pc = "ax_done"
    /\ pc' = "idle"
    /\ ax' = IdleAx
    /\ UNCHANGED <<fs, modules, plugin_paths, plugins, hooks, la, lp, hx, nextId, calls, vx>>

Next ==
    \/ LoadAllCall
    \/ LaNext
    \/ LpValidate
    \/ LpIntegrity
    \/ LpSpec
    \/ LpExec
    \/ LpResolve
    \/ LpInitialize
    \/ LpSelfValidate
    \/ LaRegister
    \/ LaHooks
    \/ LaReturn
    \/ HxCall
    \/ HxStep
    \/ HxFinish
    \/ HxReturn
    \/ AxGetPlugin
    \/ AxListPlugins
    \/ AxGetPluginRoles
    \/ AxGetPluginInfo
    \/ AxReturn

Spec == Init /\ [][Next]_vars

---------------------------------------------------------------------------
(* PluginManifest used on its own: validate and verify_integrity *)

MaxDeviations == 2

\* A field that the manifest does not have.
Absent == [t |-> "absent", s |-> "", items |-> <<>>]

\* The values a field takes in the manifests examined: absent, values that
\* pass validate, and values of a wrong type or content.
VersionValues ==
    {Absent, String("1.0.0"), String("1.0.0-alpha+build.1"), String("1.0"),
     Number("5")}
TextValues == {Absent, String("text"), Number("5")}
RequiresValues ==
    {Absent, Dict(<<Entry("python", "str", ">=3.9")>>),
     Dict(<<Entry("python", "int", "3")>>), List(<<>>)}
PermissionValues ==
    {Absent,
     List(<<Elem("str", "filesystem")>>),
     List(<<Elem("str", "network"), Elem("str", "system"), Elem("str", "environment")>>),
     List(<<Elem("str", "filesystem"), Elem("str", "bogus")>>),
     List(<<Elem("list", "")>>),
     Dict(<<Entry("filesystem", "str", "rw")>>),
     String("network"),
     Number("5")}

FieldValues(f) ==
    CASE f = "version" -> VersionValues
      [] f = "requires" -> RequiresValues
      [] f = "permissions" -> PermissionValues
      [] OTHER -> TextValues

ManifestFields ==
    {"name", "version", "author", "description", "homepage", "requires", "permissions"}

\* The manifests that differ from GoodFields in at most MaxDeviations fields.
Sheets ==
    {a \in [name : TextValues, version : VersionValues, author : TextValues,
            description : TextValues, homepage : TextValues,
            requires : RequiresValues, permissions : PermissionValues] :
        Cardinality({f \in ManifestFields :
                       a[f] # (IF f \in DOMAIN GoodFields THEN GoodFields[f] ELSE Absent)})
          <= MaxDeviations}

\* The documents json.load returns: the manifests above, a number, a list.
Documents ==
    {Doc("dict", [f \in {g \in ManifestFields : a[g] # Absent} |-> a[f]]) : a \in Sheets}
    \cup {Doc("int", <<>>), Doc("list", <<>>)}

\* The loader, not used while the validator is examined on its own.
LoaderUnused ==
    /\ fs = [n \in Names |-> NoEntries]
    /\ modules = [n \in Names |-> OkModule(n, OneHook)]
    /\ plugin_paths = <<>>
    /\ plugins = <<>>
    /\ hooks = EmptyDict
    /\ pc = "validator"
    /\ la = IdleLa
    /\ lp = IdleLp
    /\ hx = IdleHx
    /\ nextId = 1
    /\ calls = 0
    /\ ax = IdleAx

loaderVars == <<fs, modules, plugin_paths, plugins, hooks, pc, la, lp, hx, nextId, calls, ax>>

\* manifest = PluginManifest(path) on a file holding one of the documents.
InitManifest ==
    /\ LoaderUnused
    /\ \E data \in Documents :
         vx = [op |-> "manifest", data |-> data, validation |-> NoOutcome,
               stored |-> FALSE, mutated |-> FALSE, integrity |-> NoOutcome]

\* manifest.validate()
MfValidate ==
    /\ vx.validation = NoOutcome
    /\ vx' = [vx EXCEPT !.validation = validate_data(vx.data)]
    /\ UNCHANGED loaderVars

\* The digest of the other fields is computed and stored as the checksum.
MfStoreChecksum ==
    /\ vx.data.t = "dict"
    /\ ~vx.stored
    /\ vx' = [vx EXCEPT !.data.m = StoreChecksum(@), !.stored = TRUE,
                        !.validation = NoOutcome, !.integrity = NoOutcome]
    /\ UNCHANGED loaderVars

\* The value of one field other than the checksum is changed.
MfMutate ==
    /\ vx.stored
    /\ ~vx.mutated
    /\ \E f \in DOMAIN vx.data.m \ {"checksum"} :
         \E v \in FieldValues(f) \ {Absent, vx.data.m[f]} :
            vx' = [vx EXCEPT !.data.m[f] = v, !.mutated = TRUE,
                             !.validation = NoOutcome, !.integrity = NoOutcome]
    /\ UNCHANGED loaderVars

\* manifest.verify_integrity()
MfVerify ==
    /\ vx.data.t = "dict"
    /\ vx.integrity = NoOutcome
    /\ vx' = [vx EXCEPT !.integrity = Return(verify_integrity_data(vx.data))]
    /\ UNCHANGED loaderVars

NextManifest ==
    \/ MfValidate
    \/ MfStoreChecksum
    \/ MfMutate
    \/ MfVerify

SpecManifest == InitManifest /\ [][NextManifest]_vars

---------------------------------------------------------------------------
(* validate on manifests that differ in their version only *)

MaxTailLen == 2

\* Version strings the tests try.
VersionExamples ==
    {"1", "1.0", "v1.0.0", "1.0.0.", "1.0.0.0", "1.0.0-", "latest",
     "1.0.0", "0.0.1", "1.0.0-alpha", "1.0.0-alpha.1", "1.0.0+build.1",
     "1.0.0-beta+build.1"}

\* The strings of at most n of the characters that may follow them.
RECURSIVE Tails(_)
Tails(n) ==
    IF n = 0 THEN {""}
    ELSE Tails(n - 1)
         \cup {t \o c : t \in Tails(n - 1), c \in {"1", ".", "-", "+", "a", " ", "\n"}}

\* The examples, each followed by at most MaxTailLen further characters.
Versions == {e \o t : e \in VersionExamples, t \in Tails(MaxTailLen)}

InitSemver ==
    /\ LoaderUnused
    /\ \E v \in Versions :
         vx = [op |-> "semver", version |-> v, match |-> NoOutcome,
               validation |-> NoOutcome]

\* PluginManifest._is_valid_semver(version)
SvMatch ==
    /\ vx.match = NoOutcome
    /\ vx' = [vx EXCEPT !.match = Return(is_valid_semver(vx.version))]
    /\ UNCHANGED loaderVars

\* manifest.validate() on a valid manifest with that version string.
SvValidate ==
    /\ vx.validation = NoOutcome
    /\ vx' = [vx EXCEPT !.validation =
                validate_data(Doc("dict", [GoodFields EXCEPT !["version"] = String(vx.version)]))]
    /\ UNCHANGED loaderVars

NextSemver ==
    \/ SvMatch
    \/ SvValidate

SpecSemver == InitSemver /\ [][NextSemver]_vars

---------------------------------------------------------------------------
(* PluginValidator used on its own: validate_plugin, validate_all_plugins *)

\* The directories examined: those of the loader's worlds, one whose
\* __init__.py names get_hooks in a comment only, and one whose class is
\* not called Plugin.
ValidatorProfiles ==
    DirProfiles
    \cup {[GoodDir EXCEPT !.source =
             ClassSource(<<"initialize", "get_roles", "validate">>)
             \o <<Line("comment", "get_hooks")>>],
          [GoodDir EXCEPT !.source =
             <<Line("class", "MyPlugin")>> \o Tail(GoodSource)]}

\* The entries of the plugins root in the order iterdir() yields them; an
\* entry is a directory, a plain file, or not there.
RootNames == <<"alpha", "beta", ".cache">>
Roots ==
    LET RootEntries ==
            {[kind |-> "dir", dir |-> d] : d \in ValidatorProfiles}
            \cup {[kind |-> "file", dir |-> NoDir], [kind |-> "none", dir |-> NoDir]}
    IN {[alpha |-> a, beta |-> b, cache |-> c] :
           a \in RootEntries, b \in RootEntries,
           c \in {[kind |-> "dir", dir |-> GoodDir], [kind |-> "none", dir |-> NoDir]}}
EntryOf(root, name) ==
    CASE name = "alpha" -> root.alpha
      [] name = "beta" -> root.beta
      [] OTHER -> root.cache

\* plugin_dir = self.plugins_dir / plugin_name, as validate_plugin sees it.
PluginDir(root, name) ==
    IF EntryOf(root, name).kind = "dir" THEN EntryOf(root, name).dir ELSE NoDir

\* [d for d in self.plugins_dir.iterdir() if d.is_dir() and not d.name.startswith(".")]
RECURSIVE plugin_dirs(_, _)
plugin_dirs(root, names) ==
    IF names = <<>> THEN <<>>
    ELSE (IF EntryOf(root, Head(names)).kind = "dir" /\ Char(Head(names), 1) # "."
            THEN <<Head(names)>> ELSE <<>>)
         \o plugin_dirs(root, Tail(names))

\* validator = PluginValidator(plugins_dir) on a root that exists or not.
InitValidator ==
    /\ LoaderUnused
    /\ \E root \in Roots : \E rootExists \in BOOLEAN :
         /\ rootExists \/ \A i \in 1..Len(RootNames) : EntryOf(root, RootNames[i]).kind = "none"
         /\ vx = [op |-> "idle", root |-> root, rootExists |-> rootExists,
                  name |-> None, dirs |-> <<>>, i |-> 1, results |-> <<>>,
                  outcome |-> NoOutcome]

\* validator.validate_plugin(name)
VpCall ==
    /\ vx.op = "idle"
    /\ \E k \in 1..Len(RootNames) :
         vx' = [vx EXCEPT !.op = "validate_plugin", !.name = RootNames[k],
                          !.outcome = validate_plugin(PluginDir(vx.root, RootNames[k]))]
    /\ UNCHANGED loaderVars

\* validate_all_plugins up to its loop.
VaCall ==
    /\ vx.op = "idle"
    /\ IF ~vx.rootExists
       THEN vx' = [vx EXCEPT !.op = "va_done", !.outcome = Return(<<>>)]
       ELSE vx' = [vx EXCEPT !.op = "va_loop",
                             !.dirs = plugin_dirs(vx.root, RootNames)]
    /\ UNCHANGED loaderVars

\* One pass of "for plugin_directory in plugin_dirs"; an exception of
\* validate_plugin leaves validate_all_plugins.
VaStep ==
    /\ vx.op = "va_loop"
    /\ vx.i <= Len(vx.dirs)
    /\ LET plugin_name == vx.dirs[vx.i]
           r == validate_plugin(PluginDir(vx.root, plugin_name))
       IN IF r.kind = "raise"
          THEN vx' = [vx EXCEPT !.op = "va_done", !.outcome = r]
          ELSE vx' = [vx EXCEPT !.results = DictSet(@, plugin_name, r.value),
                                !.i = @ + 1]
    /\ UNCHANGED loaderVars

\* return results
VaReturn ==
    /\ vx.op = "va_loop"
    /\ vx.i > Len(vx.dirs)
    /\ vx' = [vx EXCEPT !.op = "va_done", !.outcome = Return(vx.results)]
    /\ UNCHANGED loaderVars

NextValidator ==
    \/ VpCall
    \/ VaCall
    \/ VaStep
    \/ VaReturn

SpecValidator == InitValidator /\ [][NextValidator]_vars

---------------------------------------------------------------------------
(* add_plugin_path and discover_plugins on search paths of any content *)

MaxAdds == 3

\* What a search path may hold: module files, package directories, and
\* entries that discover_plugins passes over.
ItemPool ==
    <<Item("_hidden", ".py", "file", FALSE),
      Item("visible", ".py", "file", FALSE),
      Item("pkg", "", "dir", TRUE),
      Item("plain", "", "dir", FALSE),
      Item("notes", ".txt", "file", FALSE),
      Item("_private", "", "dir", TRUE),
      Item("socket", ".py", "other", FALSE)>>

\* The items of ItemPool at the positions in keep, in the order of ItemPool.
RECURSIVE Pick(_, _)
Pick(items, keep) ==
    IF items = <<>> THEN <<>>
    ELSE (IF Len(ItemPool) - Len(items) + 1 \in keep THEN <<Head(items)>> ELSE <<>>)
         \o Pick(Tail(items), keep)

\* iterdir() yields the entries in an order of the file system's choosing:
\* that of ItemPool, or the reverse.
Listings ==
    LET Forward == {Pick(ItemPool, keep) : keep \in SUBSET (1..Len(ItemPool))}
    IN Forward \cup {[i \in 1..Len(l) |-> l[Len(l) + 1 - i]] : l \in Forward}

\* loader = PluginLoader(); the directory "user" holds one of the listings,
\* "project" nothing, a module file or a package.
InitDiscover ==
    /\ fs = [n \in Names |-> NoEntries]
    /\ modules = [n \in Names |-> OkModule(n, OneHook)]
    /\ plugin_paths = <<>>
    /\ plugins = <<>>
    /\ hooks = EmptyDict
    /\ pc = "discovery"
    /\ la = IdleLa
    /\ lp = IdleLp
    /\ hx = IdleHx
    /\ nextId = 1
    /\ calls = 0
    /\ ax = IdleAx
    /\ \E u \in Listings :
         \E p \in {<<>>, <<Item("visible", ".py", "file", FALSE)>>,
                    <<Item("extra", "", "dir", TRUE)>>} :
            vx = [op |-> "discover",
                  tree |-> [r \in ExistingPaths |-> IF r = "user" THEN u ELSE p],
                  added |-> <<>>, outcome |-> NoOutcome]

\* loader.add_plugin_path(p)
DvAdd ==
    /\ vx.op = "discover"
    /\ Len(vx.added) < MaxAdds
    /\ \E p \in ExistingPaths \cup {"missing"} :
         /\ plugin_paths' = add_plugin_path(plugin_paths, p)
         /\ vx' = [vx EXCEPT !.added = Append(@, p), !.outcome = NoOutcome]
    /\ UNCHANGED <<fs, modules, plugins, hooks, pc, la, lp, hx, nextId, calls, ax>>

\* loader.discover_plugins()
DvDiscover ==
    /\ vx.op = "discover"
    /\ vx.outcome = NoOutcome
    /\ vx' = [vx EXCEPT !.outcome = Return(DiscoverIn(plugin_paths, ExistingPaths, vx.tree))]
    /\ UNCHANGED <<fs, modules, plugin_paths, plugins, hooks, pc, la, lp, hx, nextId, calls, ax>>

NextDiscover ==
    \/ DvAdd
    \/ DvDiscover

SpecDiscover == InitDiscover /\ [][NextDiscover]_vars

---------------------------------------------------------------------------
(* Properties *)

ValidationOk(f) == f.validation.kind = "return" /\ f.validation.value.ok
ValidationNotOk(f) == f.validation.kind = "return" /\ ~f.validation.value.ok

\* The manifest of plugin n declares a checksum that is not the digest of
\* the manifest's other fields.
Tampered(n) ==
    /\ fs[n].dir.exists
    /\ fs[n].dir.manifest = "parsed"
    /\ "checksum" \in Fields(fs[n].dir.data)
    /\ fs[n].dir.data.m["checksum"] # String(Digest(WithoutChecksum(fs[n].dir.data.m)))

DictGet(h, s) == IF s \in DOMAIN h THEN h[s] ELSE <<>>

Loaded(r) == r.kind = "return" /\ IsPlugin(r.value)

\* The hooks for stage s of the plugins load_plugin returned, in the order
\* of the results.
RECURSIVE LoadedHooks(_, _)
LoadedHooks(results, s) ==
    IF results = <<>> THEN <<>>
    ELSE (IF Loaded(Head(results)) /\ s \in HookKeys(Head(results).value)
            THEN HookList(Head(results).value, s) ELSE <<>>)
         \o LoadedHooks(Tail(results), s)

\* C1: within load_plugin, plugin code runs (the module is executed, the
\* class instantiated) only when validate_plugin has returned ok for the
\* candidate; when validate_plugin returned not-ok, load_plugin has returned
\* None and no plugin code has run.
C1_ValidatedBeforeExecuted ==
    /\ (\/ lp.executed
        \/ IsPlugin(lp.inst)
        \/ pc \in {"lp_exec", "lp_resolve", "lp_initialize", "lp_selfvalidate"})
       => ValidationOk(lp)
    /\ ValidationNotOk(lp)
       => /\ ~lp.executed
          /\ ~IsPlugin(lp.inst)
          /\ lp.outcome = Return(NoPlugin)

\* A load_plugin call that validated its candidate and ran its module.
C1_Witness == pc = "lp_done" /\ lp.executed /\ ValidationOk(lp)

\* C2: a plugin whose manifest declares a checksum differing from the
\* recomputed digest never loads: load_plugin returns None for each of its
\* candidates, and after load_all it is neither in the registry nor the
\* owner of a registered hook.
C2_TamperedNeverLoads ==
    /\ (pc = "lp_done" /\ Tampered(lp.cand.module_name))
       => ~Loaded(lp.outcome)
    /\ pc = "la_done"
       => /\ \A i \in 1..Len(plugins) : ~Tampered(plugins[i].inst.module)
          /\ \A s \in DOMAIN hooks : \A j \in 1..Len(hooks[s]) :
                ~Tampered(hooks[s][j].module)

\* C3: a plugin that passed validate_plugin and whose manifest has no
\* checksum field is not aborted at the integrity step of load_plugin.
C3_NoChecksumPassesIntegrity ==
    (/\ ValidationOk(lp)
     /\ lp.integrity # "pending"
     /\ "checksum" \notin Fields(fs[lp.cand.module_name].dir.data))
    => lp.integrity \in {"skipped", "ok"}

\* C4: load_plugin never raises to its caller; whatever fails, it returns.
C4_LoadPluginNeverRaises ==
    pc = "lp_done" => lp.outcome.kind = "return"

\* C5: load_all never raises, attempts every candidate also after a failed
\* one, and returns the number of candidates load_plugin succeeded for.
C5_LoadAllNeverRaises ==
    pc = "la_done"
    => /\ la.outcome.kind = "return"
       /\ Len(la.results) = Len(la.discovered)
       /\ la.outcome.value =
            Cardinality({i \in 1..Len(la.results) : Loaded(la.results[i])})

\* C6: execute_hooks is fail-fast: when a hook of the stage returns False,
\* context.status is "failed", execute_hooks returns False, and no hook
\* registered after it is invoked.
C6_FailFastOnFalse ==
    pc \in {"hx_loop", "hx_done"}
    => \A k \in 1..Len(hx.results) :
         hx.results[k] = "false"
         => /\ pc = "hx_done"
            /\ k = Len(hx.results)
            /\ hx.invoked = SubSeq(hx.list, 1, k)
            /\ hx.ctx.status = "failed"
            /\ hx.outcome = Return(FALSE)

\* Three hooks registered for the stage, the second returned False.
C6_Witness ==
    /\ pc = "hx_done"
    /\ Len(hx.list) >= 3
    /\ hx.results = <<"true", "false">>

\* C7: a fault raised by a hook, of whatever kind, is not re-raised:
\* context.status is "failed", context.error is the fault's message,
\* execute_hooks returns False and the remaining hooks are not invoked.
C7_HookFaultNeverReRaised ==
    (/\ pc = "hx_done"
     /\ hx.results # <<>>
     /\ hx.results[Len(hx.results)] \in Faults)
    => /\ hx.outcome = Return(FALSE)
       /\ hx.ctx.status = "failed"
       /\ hx.ctx.error = hx.results[Len(hx.results)]
       /\ hx.invoked = SubSeq(hx.list, 1, Len(hx.results))

\* C8: execute_hooks for a stage without hooks returns True and leaves the
\* context, created or supplied, with status "success".
C8_EmptyStageSuccess ==
    (pc = "hx_done" /\ hx.list = <<>>)
    => /\ hx.outcome = Return(TRUE)
       /\ hx.ctx.status = "success"

\* C9: when every hook registered for the stage returns True, each has been
\* invoked exactly once in registration order, context.status is "success"
\* and execute_hooks returns True.
C9_AllTrueInOrder ==
    (/\ pc = "hx_done"
     /\ hx.outcome.kind = "return"
     /\ \A k \in 1..Len(hx.results) : hx.results[k] = "true")
    => /\ hx.invoked = hx.list
       /\ hx.ctx.status = "success"
       /\ hx.outcome = Return(TRUE)

\* C10: plugins are loaded one after the other in discovery order, and for
\* every stage load_all appends to the hook list the hook lists of the
\* plugins it loaded, in discovery order (on a new loader the hook list is
\* exactly that concatenation).
C10_HookOrderFollowsDiscovery ==
    (pc = "la_done" /\ la.outcome.kind = "return")
    => /\ Len(la.results) = Len(la.discovered)
       /\ \A s \in DeclStages \cup DOMAIN hooks :
            DictGet(hooks, s) = DictGet(la.hooksBefore, s) \o LoadedHooks(la.results, s)
       /\ \A i \in 1..Len(la.results) :
            Loaded(la.results[i])
            => /\ la.results[i].value.module = la.discovered[i].module_name
               /\ \A j \in 1..(i - 1) :
                    Loaded(la.results[j])
                    => la.results[j].value.id < la.results[i].value.id

\* A first load_all that loaded two plugins, each with a hook for pre_setup.
C10_Witness ==
    /\ pc = "la_done"
    /\ la.outcome = Return(2)
    /\ la.hooksBefore = EmptyDict
    /\ Len(DictGet(hooks, "pre_setup")) >= 2
    /\ hooks["pre_setup"][1].owner # hooks["pre_setup"][Len(hooks["pre_setup"])].owner

\* The module names of a discovery list, in order.
CandidateNames(cands) == [i \in 1..Len(cands) |-> cands[i].module_name]

\* Every plugin on disk is a package directory with a valid manifest (the
\* checksum included), a valid entry point and code that loads without error.
OnlySoundPackages ==
    \A n \in Names :
        /\ fs[n] = PackageOnly(GoodDir)
        /\ \E decl \in Decls : modules[n] = OkModule(n, decl)

\* C11: load_all over search paths holding N sound plugin directories with
\* distinct names returns N, and list_plugins() is then those N names in
\* discovery order.
C11_SoundPackagesAllLoad ==
    (pc = "la_done" /\ calls = 1 /\ OnlySoundPackages)
    => /\ Len(la.discovered) = Cardinality(Names)
       /\ la.outcome = Return(Len(la.discovered))
       /\ list_plugins(plugins) = CandidateNames(la.discovered)

\* C12: checksum round trip.  Once the digest of the other fields is stored
\* as the checksum, verify_integrity returns (True, _); after the value of a
\* field other than the checksum has then been changed, it returns (False, _).
C12_ChecksumRoundTrip ==
    (vx.op = "manifest" /\ vx.stored /\ vx.integrity # NoOutcome)
    => (vx.integrity.value.ok <=> ~vx.mutated)

\* A manifest whose permissions were changed after the checksum was stored,
\* and which verify_integrity has rejected.
C12_Witness ==
    /\ vx.op = "manifest"
    /\ vx.stored /\ vx.mutated
    /\ DOMAIN vx.data.m = DOMAIN GoodFields \cup {"checksum"}
    /\ vx.data.m["permissions"] # GoodFields["permissions"]
    /\ vx.data.m["version"] = GoodFields["version"]
    /\ vx.integrity = Return([ok |-> FALSE, msg |-> "tampered"])

\* The manifest of directory d declares a checksum that verify_integrity
\* rejects, and passes schema validation.
RejectedChecksum(d) ==
    /\ d.exists /\ d.manifest = "parsed"
    /\ validate(d) = Return([ok |-> TRUE, errors |-> <<>>])
    /\ "checksum" \in Fields(d.data)
    /\ ~verify_integrity(d).ok

\* C13: validate_plugin checks integrity as one of its gates: for a manifest
\* that passes schema validation and declares a checksum verify_integrity
\* rejects, it returns (False, message), the message not that of a schema
\* failure.
C13_IntegrityIsAGate ==
    (vx.op = "validate_plugin" /\ RejectedChecksum(PluginDir(vx.root, vx.name)))
    => /\ vx.outcome.kind = "return"
       /\ ~vx.outcome.value.ok
       /\ vx.outcome.value.msg # "schema"

\* The first gate of the claimed order that directory d fails, "passed" when
\* it fails none.
FirstFailedGate(d) ==
    IF ~d.exists THEN "dir_not_found"
    ELSE IF d.manifest = "missing" THEN "missing_manifest"
    ELSE IF d.manifest = "malformed" THEN "malformed_manifest"
    ELSE IF validate(d) # Return([ok |-> TRUE, errors |-> <<>>]) THEN "schema"
    ELSE IF d.init = "missing" THEN "missing_init"
    ELSE IF d.init = "empty" THEN "empty_init"
    ELSE IF ~verify_plugin_class(d) THEN "class_not_defined"
    ELSE "passed"

\* C14: validate_plugin applies its gates in the fixed order (directory,
\* manifest file, manifest parses, schema, entry point exists, entry point
\* not empty, interface), stops at the first that fails and returns
\* (False, message) with the message of that gate; it returns (True, _) only
\* when every gate passes.
C14_GatesInOrder ==
    vx.op = "validate_plugin"
    => LET gate == FirstFailedGate(PluginDir(vx.root, vx.name)) IN
       vx.outcome = Return([ok |-> gate = "passed", msg |-> gate])

\* The class of the __init__.py text defines every required method.
DefinesAll(source) ==
    \A i \in 1..Len(RequiredMethods) :
        \E j \in 1..Len(source) :
            source[j].kind = "def" /\ source[j].name = RequiredMethods[i]

\* Plugin n has an entry point whose implementation lacks a required method.
IncompleteInterface(n) ==
    /\ n \in Names
    /\ fs[n].dir.exists
    /\ fs[n].dir.init = "text"
    /\ ~DefinesAll(fs[n].dir.source)

\* C15: for a plugin whose entry-point implementation does not define all
\* of initialize, get_roles, get_hooks and validate, validate_plugin returns
\* (False, _) and load_plugin does not load it.
C15_IncompleteInterfaceNeverLoads ==
    (lp.validation # NoOutcome /\ IncompleteInterface(lp.cand.module_name))
    => /\ ValidationNotOk(lp)
       /\ ~Loaded(lp.outcome)

\* The fields of mapping m that violate the manifest schema: a required
\* field missing or no string, a version that is a string outside the
\* version grammar, an optional field of the wrong type, permissions with an
\* entry outside the allow-list, requires with a constraint that is no string.
ViolatingFields(m) ==
    {f \in {"name", "version", "author", "description"} :
        f \notin DOMAIN m \/ m[f].t # "str"}
    \cup {f \in {"homepage", "repository", "license", "requires", "permissions"} :
        f \in DOMAIN m /\ m[f].t # FieldType(f)}
    \cup {f \in {"version"} :
        f \in DOMAIN m /\ m[f].t = "str" /\ ~is_valid_semver(m[f].s)}
    \cup {f \in {"permissions"} :
        f \in DOMAIN m /\ m[f].t = "list"
        /\ \E i \in 1..Len(m[f].items) :
             m[f].items[i].t # "str" \/ m[f].items[i].s \notin VALID_PERMISSIONS}
    \cup {f \in {"requires"} :
        f \in DOMAIN m /\ m[f].t = "dict"
        /\ \E i \in 1..Len(m[f].items) : m[f].items[i].t # "str"}

ErrorFields(errors) == {errors[i].field : i \in 1..Len(errors)}

\* C16: validate never raises and never short-circuits: for any parsed
\* manifest, also one with several violations or with a field of a wrong
\* type, it returns (ok, errors), the errors naming each violating field
\* (and no other), ok being true exactly when errors is empty.
C16_ValidateCollectsAll ==
    (vx.op = "manifest" /\ vx.data.t = "dict" /\ vx.validation # NoOutcome)
    => /\ vx.validation.kind = "return"
       /\ vx.validation.value.ok <=> vx.validation.value.errors = <<>>
       /\ ErrorFields(vx.validation.value.errors) = ViolatingFields(vx.data.m)

RequiredSet == {REQUIRED_FIELDS[i] : i \in 1..Len(REQUIRED_FIELDS)}

\* Every check of validate can handle the values of m: the version, if
\* any, is a string, and the permissions, if any, can be iterated and their
\* entries hashed.
Processable(m) ==
    /\ "version" \in DOMAIN m => m["version"].t = "str"
    /\ "permissions" \in DOMAIN m => SetOf(m["permissions"]).kind = "return"

HasError(errors, kind, field) ==
    \E i \in 1..Len(errors) : errors[i].kind = kind /\ errors[i].field = field

InGrammar(v) == PatternMatch(v, Len(v))

\* C18: validate accepts a version string exactly when it is in the
\* grammar; it rejects "1", "1.0", "v1.0.0", "1.0.0.", "1.0.0.0", "1.0.0-"
\* and "latest" and accepts "1.0.0", "0.0.1", "1.0.0-alpha", "1.0.0-alpha.1",
\* "1.0.0+build.1" and "1.0.0-beta+build.1".
C18_VersionGrammar ==
    (vx.op = "semver" /\ vx.validation # NoOutcome)
    => /\ vx.validation.kind = "return"
       /\ vx.validation.value.ok <=> InGrammar(vx.version)
       /\ vx.version \in {"1", "1.0", "v1.0.0", "1.0.0.", "1.0.0.0", "1.0.0-", "latest"}
          => ~vx.validation.value.ok
       /\ vx.version \in {"1.0.0", "0.0.1", "1.0.0-alpha", "1.0.0-alpha.1",
                          "1.0.0+build.1", "1.0.0-beta+build.1"}
          => vx.validation.value.ok

\* The entries of a permissions list that are outside the allow-list.
OutsideAllowList(perms) ==
    {perms.items[i].s : i \in {j \in 1..Len(perms.items) :
        perms.items[j].t # "str" \/ perms.items[j].s \notin VALID_PERMISSIONS}}

\* C19: validate accepts the permissions list of a manifest exactly when
\* every entry is one of filesystem, network, system, environment; otherwise
\* it returns False with an error that names the entries outside the
\* allow-list.
C19_PermissionsAllowList ==
    (/\ vx.op = "manifest" /\ vx.data.t = "dict" /\ vx.validation # NoOutcome
     /\ "permissions" \in DOMAIN vx.data.m
     /\ vx.data.m["permissions"].t = "list")
    => LET outside == OutsideAllowList(vx.data.m["permissions"]) IN
       /\ vx.validation.kind = "return"
       /\ outside = {}
          => "permissions" \notin ErrorFields(vx.validation.value.errors)
       /\ outside # {}
          => /\ ~vx.validation.value.ok
             /\ \E i \in 1..Len(vx.validation.value.errors) :
                  vx.validation.value.errors[i] =
                      Error("permissions", "permissions", outside)

\* The immediate, non-hidden subdirectories of the plugins root.
Subdirectories(v) == IF v.rootExists THEN plugin_dirs(v.root, RootNames) ELSE <<>>

\* C20: validate_all_plugins never raises and returns a mapping with exactly
\* one entry for every immediate, non-hidden subdirectory of the plugins
\* root; a subdirectory whose manifest or entry point fails a gate of the
\* validation has a (False, message) entry, and the others are evaluated
\* all the same.
C20_ValidateAllNeverRaises ==
    vx.op = "va_done"
    => /\ vx.outcome.kind = "return"
       /\ [i \in 1..Len(vx.outcome.value) |-> vx.outcome.value[i].key]
            = Subdirectories(vx)
       /\ \A i \in 1..Len(vx.outcome.value) :
            LET gate == FirstFailedGate(PluginDir(vx.root, vx.outcome.value[i].key)) IN
            vx.outcome.value[i].inst.ok <=> gate = "passed"

\* A child of a search path qualifies as a plugin: its name does not start
\* with an underscore, and it is a file with the source extension or a
\* directory that holds an entry-point file.
Qualifies(item) ==
    /\ Char(ItemName(item), 1) # "_"
    /\ \/ item.kind = "file" /\ item.suffix = ".py"
       \/ item.kind = "dir" /\ item.init

\* The qualifying children of the paths, path after path in the order given,
\* each as (kind, name) with the stem of a file and the name of a directory.
RECURSIVE QualifyingChildren(_, _)
QualifyingChildren(paths, tree) ==
    IF paths = <<>> THEN <<>>
    ELSE LET q == SelectSeq(tree[Head(paths)], Qualifies) IN
         [i \in 1..Len(q) |->
            [root |-> Head(paths), kind |-> q[i].kind,
             name |-> IF q[i].kind = "file" THEN q[i].stem ELSE ItemName(q[i])]]
         \o QualifyingChildren(Tail(paths), tree)

\* C21: discover_plugins returns exactly the immediate children of the
\* search paths whose name does not start with an underscore and that are a
\* .py file or a directory with an __init__.py, each under its stem or
\* directory name, the search paths taken in the order they were added.
C21_DiscoveryFilter ==
    (vx.op = "discover" /\ vx.outcome # NoOutcome)
    => LET found == vx.outcome.value
           expected == QualifyingChildren(SelectSeq(vx.added, LAMBDA p : p \in ExistingPaths),
                                          vx.tree)
       IN /\ Len(found) = Len(expected)
          /\ \A i \in 1..Len(found) :
               /\ found[i].module_name = expected[i].name
               /\ found[i].path.root = expected[i].root
               /\ found[i].path.kind = expected[i].kind

\* A directory holding _hidden.py, visible.py and pkg/ with an entry point,
\* discovered: exactly visible and pkg.
C21_Witness ==
    /\ vx.op = "discover"
    /\ vx.added = <<"user">>
    /\ vx.tree["user"] = Pick(ItemPool, {1, 2, 3})
    /\ vx.outcome = Return(<<Candidate("user", "visible", "file"),
                             Candidate("user", "pkg", "dir")>>)

NoDuplicates(seq) == \A i \in 1..Len(seq) : \A j \in 1..Len(seq) : seq[i] = seq[j] => i = j

\* C22: the search paths are deduplicated and existence-checked: whatever
\* add_plugin_path and load_all calls were made, plugin_paths holds existing
\* directories only and none twice, so discover_plugins scans each directory
\* at most once and returns no candidate twice.
C22_PathsScannedOnce ==
    /\ \A i \in 1..Len(plugin_paths) : plugin_paths[i] \in ExistingPaths
    /\ NoDuplicates(plugin_paths)
    /\ NoDuplicates(la.discovered)
    /\ (vx.op = "discover" /\ vx.outcome # NoOutcome) => NoDuplicates(vx.outcome.value)

\* C23: the tail of a load runs Instantiated, SelfInitialized (initialize()
\* called), SelfValidated (validate() called), Registered: validate() is
\* called on an initialized instance only, a plugin is in the registry only
\* after its validate() returned true, and a plugin whose validate() returns
\* false is never in the registry and owns no registered hook.
C23_RegisteredAfterSelfValidation ==
    /\ pc = "lp_initialize" => IsPlugin(lp.inst) /\ ~lp.inst.initialized
    /\ pc = "lp_selfvalidate" => lp.inst.initialized /\ ~lp.inst.validated
    /\ IsPlugin(lp.inst) /\ lp.inst.validated => lp.inst.initialized
    /\ Loaded(lp.outcome) => lp.outcome.value.initialized /\ lp.outcome.value.validated
    /\ \A i \in 1..Len(plugins) :
         /\ plugins[i].inst.initialized
         /\ plugins[i].inst.validated
         /\ modules[plugins[i].inst.module].validate = "true"
    /\ \A s \in DOMAIN hooks : \A j \in 1..Len(hooks[s]) :
         modules[hooks[s][j].module].validate = "true"

\* load_all is over: the plugin "alpha", whose validate() returns false, was
\* instantiated and initialized and is not registered, "beta" is.
C23_Witness ==
    /\ pc = "la_done"
    /\ modules["alpha"].validate = "false"
    /\ \E i \in 1..Len(la.results) :
         /\ la.discovered[i] = Candidate("user", "alpha", "file")
         /\ la.results[i] = Return(NoPlugin)
    /\ ~HasKey(plugins, "alpha")
    /\ HasKey(plugins, "beta")
    /\ nextId >= 3

\* The steps of get_plugin, list_plugins, get_plugin_roles, get_plugin_info
\* and execute_hooks: those that start one of them at idle, and those taken
\* inside an execute_hooks call.
AccessorStep ==
    \/ pc = "idle" /\ pc' \in {"ax_done", "hx_loop", "hx_done"}
    \/ pc \in {"ax_done", "hx_loop", "hx_done"}

\* C24: get_plugin, list_plugins, get_plugin_roles, get_plugin_info and
\* execute_hooks are read-only over the plugin registry and the per-stage
\* hook lists: across every step of such a call the keys, the plugin objects
\* and the hooks with their order are the same before and after.
C24_AccessorsReadOnly ==
    [][AccessorStep => (plugins' = plugins /\ hooks' = hooks)]_vars

\* get_plugin_info has returned the entries of a registry of two plugins,
\* with hooks registered for pre_setup.
C24_Witness ==
    /\ pc = "ax_done"
    /\ ax.op = "get_plugin_info"
    /\ ax.outcome.kind = "return"
    /\ Len(plugins) = 2
    /\ Len(ax.outcome.value) = 2
    /\ Len(DictGet(hooks, "pre_setup")) >= 2

\* What validate_plugin(module_name) of PluginValidator(plugin_dir.parent)
\* looked at: the entry point and the manifest of <root>/<module_name>/.
ValidatedEntryPoint(cand) == cand.path.root \o "/" \o cand.module_name \o "/__init__.py"
ValidatedManifest(cand) == cand.path.root \o "/" \o cand.module_name \o "/manifest.json"

\* The source file that runs when the module at the candidate's path is
\* executed: the file itself, or the __init__.py of a package directory.
ExecutedSource(cand) ==
    IF cand.path.kind = "file" THEN PathString(cand.path)
    ELSE PathString(cand.path) \o "/__init__.py"

\* C25: for every candidate of discover_plugins, the source file load_plugin
\* executes is the entry-point file validate_plugin inspected, and the
\* manifest whose integrity it checks is the manifest validate_plugin
\* validated.
C25_ExecutesWhatWasValidated ==
    /\ lp.executed => ExecutedSource(lp.cand) = ValidatedEntryPoint(lp.cand)
    /\ lp.integrity \in {"ok", "failed", "error"}
       => PathString(lp.cand.path) \o "/manifest.json" = ValidatedManifest(lp.cand)

\* The plugin objects in the registry.
RegisteredIds == {plugins[i].inst.id : i \in 1..Len(plugins)}

\* C26: whenever no load_all call is running, every hook in the per-stage
\* hook lists was declared by a plugin object that is in the registry; a
\* plugin that was overwritten by another of the same name has no hook left
\* in the lists.
C26_HooksOwnedByRegistered ==
    pc \in {"idle", "la_done"}
    => \A s \in DOMAIN hooks : \A j \in 1..Len(hooks[s]) :
         hooks[s][j].owner \in RegisteredIds

\* C27: load_all is idempotent on the loader's state: a second call with the
\* same search paths leaves the registry keys, the per-stage hook lists and
\* the search-path list as they were after the first call.
C27_LoadAllIdempotent ==
    (/\ pc = "la_done" /\ calls = 2
     /\ la.outcome.kind = "return"
     /\ la.args = la.prevArgs)
    => /\ list_plugins(plugins) = list_plugins(la.pluginsBefore)
       /\ hooks = la.hooksBefore
       /\ plugin_paths = la.pathsBefore

\* C28: every key of the hook registry is one of the four fixed stages
\* pre_setup, post_setup, pre_role, post_role; hooks a loaded plugin declares
\* under another stage name are not registered.
C28_OnlyFixedStages ==
    DOMAIN hooks \subseteq FixedStages

\* C29: a plugin registered by load_all is keyed in the registry by the name
\* it was discovered and validated under, so that once load_all has returned
\* get_plugin(discovered name) is a plugin object loaded from that candidate
\* and every key of the registry is the module name of its plugin.
C29_KeyedByDiscoveredName ==
    (pc = "la_done" /\ la.outcome.kind = "return")
    => /\ \A i \in 1..Len(la.results) :
            Loaded(la.results[i])
            => /\ HasKey(plugins, la.discovered[i].module_name)
               /\ get_plugin(plugins, la.discovered[i].module_name).module
                    = la.discovered[i].module_name
       /\ \A i \in 1..Len(plugins) : plugins[i].key = plugins[i].inst.module

\* C30: execute_hooks itself writes only the status and the error of the
\* context: during and after a call the context's stage, role, task and
\* metadata are what they were when the call began (the hooks of the model
\* leave the context alone), and the error differs from what it was only
\* when the last hook invoked raised a fault, whose message it then is.
C30_DispatcherWritesStatusAndError ==
    pc \in {"hx_loop", "hx_done"}
    => /\ hx.ctx.stage = hx.before.stage
       /\ hx.ctx.role = hx.before.role
       /\ hx.ctx.task = hx.before.task
       /\ hx.ctx.metadata = hx.before.metadata
       /\ hx.ctx.error # hx.before.error
          => /\ hx.results # <<>>
             /\ hx.results[Len(hx.results)] \in Faults
             /\ hx.ctx.error = hx.results[Len(hx.results)]

\* A call on a supplied context with role "shell": the first hook returned
\* True, the second raised OSError; the context has status "failed" and the
\* fault as its error, and its role is still "shell".
C30_Witness ==
    /\ pc = "hx_done"
    /\ hx.supplied
    /\ hx.before.role = "shell"
    /\ hx.results = <<"true", "OSError">>
    /\ hx.ctx = [hx.before EXCEPT !.status = "failed", !.error = "OSError"]

====
